---- MODULE Spec2Model ----
(***************************************************************************)
(* Model of the RAG question-answering service (src/app.py) and of the     *)
(* standalone ingestion script (src/ingest.py).                            *)
(*                                                                         *)
(* The query service is a FastAPI application.  `chat` is a plain `def`    *)
(* handler, so the framework runs every POST /chat request on a thread of  *)
(* its pool: the handlers of concurrent requests interleave between any    *)
(* two statements.  Each statement of the handler that touches the disk,   *)
(* the environment, an external API or the global `rag_chain` is one       *)
(* atomic step of the worker thread that executes it.                      *)
(*                                                                         *)
(* The corpus file data.txt is a sequence of paragraphs separated by the   *)
(* splitter's separator; a paragraph is known by its length in characters. *)
(***************************************************************************)
EXTENDS Integers, Sequences, FiniteSets, TLC

(* ---------------------------- bounds ----------------------------------- *)

\* number of threads of the pool that handle POST /chat requests
NumWorkers == 2
\* number of paragraphs of the corpus file
MaxParas == 2

Workers == 1..NumWorkers
\* paragraph lengths the corpus is drawn from (characters)
ParaLens == {400, 700}
Corpora == [1..MaxParas -> ParaLens]

(* ------------------------ program constants ---------------------------- *)

\* CharacterTextSplitter(chunk_size=1000, chunk_overlap=0) in app.py
app_chunk_size == 1000
app_chunk_overlap == 0
\* CharacterTextSplitter(chunk_size=1000, chunk_overlap=0) in ingest.py
ingest_chunk_size == 1000
ingest_chunk_overlap == 0
\* length of the splitter's separator (its default, a blank line)
separator_len == 2
\* status code of a route declared without status_code
default_status_code == 200
\* second element of the tuple the except branch returns
error_status == 500

None == 0

VARIABLES
    keySet,         \* OPENAI_API_KEY is in the service's environment
    apiUp,          \* the external embedding / chat APIs answer
    corpus,         \* text of data.txt (paragraph lengths)
    corpusPresent,  \* data.txt exists
    index,          \* the faiss_index directory on disk
    rag_chain,      \* the module global: None or the pipeline instance
    pc,             \* per worker: the statement it is about to execute
    docs,           \* per worker: local `docs` of ensure_faiss_index
    db,             \* per worker: local `db` of ensure_faiss_index
    chain,          \* per worker: local `chain` of chat
    retval,         \* per worker: the value chat returned
    ingestPc,       \* the ingestion script's position
    ingestDb,       \* the ingestion script's `db`
    indexAtStart    \* history: faiss_index existed when the service started

vars == <<keySet, apiUp, corpus, corpusPresent, index, rag_chain, pc, docs, db,
          chain, retval, ingestPc, ingestDb, indexAtStart>>

env == <<keySet, apiUp, corpus, corpusPresent>>
disk == <<index, indexAtStart>>
locals == <<docs, db, chain, retval>>
workers == <<rag_chain, pc, locals>>
ingest == <<ingestPc, ingestDb>>

(* ------------------------- text splitting ------------------------------ *)

\* the while loop of the splitter's merge: drop pieces from the front of the
\* current chunk until what is kept fits the overlap and leaves room
RECURSIVE PopFront(_, _, _, _, _, _)
PopFront(text, cur, total, len, size, overlap) ==
    IF total > overlap
       \/ (total + len + (IF Len(cur) > 0 THEN separator_len ELSE 0) > size
           /\ total > 0)
    THEN PopFront(text, Tail(cur),
                  total - (text[Head(cur)]
                           + (IF Len(cur) > 1 THEN separator_len ELSE 0)),
                  len, size, overlap)
    ELSE <<cur, total>>

\* merge the pieces text[i..] into chunks of at most `size` characters
RECURSIVE MergeSplits(_, _, _, _, _, _, _)
MergeSplits(text, i, cur, total, out, size, overlap) ==
    IF i > Len(text)
    THEN IF cur = <<>> THEN out ELSE Append(out, cur)
    ELSE LET len == text[i]
             over == total + len
                       + (IF Len(cur) > 0 THEN separator_len ELSE 0) > size
             flush == over /\ Len(cur) > 0
             out2 == IF flush THEN Append(out, cur) ELSE out
             kept == IF flush
                     THEN PopFront(text, cur, total, len, size, overlap)
                     ELSE <<cur, total>>
             cur2 == Append(kept[1], i)
             total2 == kept[2] + len
                         + (IF Len(cur2) > 1 THEN separator_len ELSE 0)
         IN MergeSplits(text, i + 1, cur2, total2, out2, size, overlap)

\* a chunk's text: the paragraphs it joins
ChunkText(text, chunk) == [k \in 1..Len(chunk) |-> text[chunk[k]]]

\* text_splitter.split_documents(documents)
split_documents(text, size, overlap) ==
    LET chunks == MergeSplits(text, 1, <<>>, 0, <<>>, size, overlap)
    IN [k \in 1..Len(chunks) |-> ChunkText(text, chunks[k])]

(* ---------------------------- the index -------------------------------- *)

RECURSIVE SumLen(_)
SumLen(s) == IF s = <<>> THEN 0 ELSE Head(s) + SumLen(Tail(s))

\* the embedding function: opaque, deterministic in the chunk's text
Embed(chunkText) ==
    (SumLen(chunkText) + separator_len * (Len(chunkText) - 1)) % 97

\* FAISS.from_documents(docs, embeddings): one (vector, text) pair per chunk
from_documents(ds) ==
    [k \in 1..Len(ds) |-> [vector |-> Embed(ds[k]), text |-> ds[k]]]

Absent == [kind |-> "absent", entries |-> <<>>]
\* a faiss_index directory that exists and cannot be loaded
Corrupt == [kind |-> "corrupt", entries |-> <<>>]
Saved(entries) == [kind |-> "index", entries |-> entries]

\* os.path.exists("faiss_index")
path_exists(ix) == ix.kind /= "absent"

(* ------------------------ Python / JSON values ------------------------- *)

Dict(k, v) == [type |-> "dict", key |-> k, val |-> v, snd |-> 0]
Tuple2(a, b) == [type |-> "tuple", key |-> a.key, val |-> a.val, snd |-> b]
NoValue == [type |-> "none", key |-> "", val |-> "", snd |-> 0]

\* FastAPI's serialisation of a handler's return value: a dict becomes a JSON
\* object, a tuple becomes a JSON array of its elements
jsonable_encoder(v) ==
    IF v.type = "dict"
    THEN [json |-> "object", fields |-> {v.key}, text |-> v.val, second |-> 0]
    ELSE [json |-> "array", fields |-> {}, text |-> v.val, second |-> v.snd]

\* the HTTP response the route sends for a handler's return value
HttpResponse(v) ==
    [status |-> default_status_code, body |-> jsonable_encoder(v)]

(* ----------------------------- Init ----------------------------------- *)

\* what ingest.py leaves on disk for a corpus
IngestIndex(text) ==
    Saved(from_documents(
        split_documents(text, ingest_chunk_size, ingest_chunk_overlap)))

\* the service has been imported and no request has arrived: rag_chain = None.
\* The deployment may or may not have run ingest.py beforehand.
Init ==
    /\ keySet \in BOOLEAN
    /\ apiUp \in BOOLEAN
    /\ corpus \in Corpora
    /\ corpusPresent \in BOOLEAN
    /\ index \in {Absent, Corrupt, IngestIndex(corpus)}
    /\ rag_chain = None
    /\ pc = [w \in Workers |-> "idle"]
    /\ docs = [w \in Workers |-> <<>>]
    /\ db = [w \in Workers |-> <<>>]
    /\ chain = [w \in Workers |-> None]
    /\ retval = [w \in Workers |-> NoValue]
    /\ ingestPc = "idle"
    /\ ingestDb = <<>>
    /\ indexAtStart = path_exists(index)

(* --------------------- the chat handler, step by step ------------------ *)

Goto(w, label) == pc' = [pc EXCEPT ![w] = label]

\* an exception raised inside the try block of chat: the stack unwinds and
\* the except branch returns the pair ({"error": str(e)}, 500)
Raise(w, e) ==
    /\ retval' = [retval EXCEPT ![w] = Tuple2(Dict("error", e), error_status)]
    /\ docs' = [docs EXCEPT ![w] = <<>>]
    /\ db' = [db EXCEPT ![w] = <<>>]
    /\ chain' = [chain EXCEPT ![w] = None]
    /\ Goto(w, "respond")

\* constructing an OpenAI client object: with the key in the environment it
\* succeeds; without it the library either refuses at construction or builds
\* a client whose calls the API rejects
ClientConstructs(ok) == IF keySet THEN ok = TRUE ELSE ok \in BOOLEAN

\* a call to the external API succeeds
ApiCallSucceeds == keySet /\ apiUp

\* a POST /chat request reaches a free worker thread, which enters chat and
\* get_rag_chain: `if rag_chain is None`
GetRagChain(w) ==
    /\ pc[w] = "idle"
    /\ IF rag_chain = None THEN Goto(w, "ensure") ELSE Goto(w, "return")
    /\ UNCHANGED <<env, disk, rag_chain, locals, ingest>>

\* faulty variant: the generation path is taken whenever the directory holds no
\* loadable index, not only when the directory is missing
EnsureFaissIndex_unloadable(w) ==
    /\ pc[w] = "ensure"
    /\ IF index.kind /= "index" THEN Goto(w, "corpus") ELSE Goto(w, "load")
    /\ UNCHANGED <<env, disk, rag_chain, locals, ingest>>

\* ensure_faiss_index: `if not os.path.exists("faiss_index")`
EnsureFaissIndex(w) ==
    /\ pc[w] = "ensure"
    /\ IF ~path_exists(index) THEN Goto(w, "corpus") ELSE Goto(w, "load")
    /\ UNCHANGED <<env, disk, rag_chain, locals, ingest>>

\* faulty variant: the service splits with a chunk size other than ingest.py's
LoadCorpus_half(w) ==
    /\ pc[w] = "corpus"
    /\ IF ~corpusPresent
       THEN Raise(w, "FileNotFoundError")
       ELSE /\ docs' = [docs EXCEPT ![w] =
                  split_documents(corpus, app_chunk_size \div 2,
                                  app_chunk_overlap)]
            /\ Goto(w, "embed")
            /\ UNCHANGED <<db, chain, retval>>
    /\ UNCHANGED <<env, disk, rag_chain, ingest>>

\* the generation path: the corpus check, TextLoader.load and split_documents
LoadCorpus(w) ==
    /\ pc[w] = "corpus"
    /\ IF ~corpusPresent
       THEN Raise(w, "FileNotFoundError")
       ELSE /\ docs' = [docs EXCEPT ![w] =
                  split_documents(corpus, app_chunk_size, app_chunk_overlap)]
            /\ Goto(w, "embed")
            /\ UNCHANGED <<db, chain, retval>>
    /\ UNCHANGED <<env, disk, rag_chain, ingest>>

\* faulty variant: the index directory is created before the chunks are embedded, so
\* a failed embedding leaves a directory without an index behind
BuildIndex_mkdir(w) ==
    /\ pc[w] = "embed"
    /\ \E ok \in BOOLEAN :
         /\ ClientConstructs(ok)
         /\ IF ~ok THEN Raise(w, "CredentialError") /\ index' = Corrupt
            ELSE IF ~ApiCallSucceeds
                 THEN Raise(w, "APIError") /\ index' = Corrupt
            ELSE /\ db' = [db EXCEPT ![w] = from_documents(docs[w])]
                 /\ Goto(w, "save")
                 /\ UNCHANGED <<docs, chain, retval, index>>
    /\ UNCHANGED <<env, indexAtStart, rag_chain, ingest>>

\* OpenAIEmbeddings() and FAISS.from_documents(docs, embeddings)
BuildIndex(w) ==
    /\ pc[w] = "embed"
    /\ \E ok \in BOOLEAN :
         /\ ClientConstructs(ok)
         /\ IF ~ok THEN Raise(w, "CredentialError")
            ELSE IF ~ApiCallSucceeds THEN Raise(w, "APIError")
            ELSE /\ db' = [db EXCEPT ![w] = from_documents(docs[w])]
                 /\ Goto(w, "save")
                 /\ UNCHANGED <<docs, chain, retval>>
    /\ UNCHANGED <<env, disk, rag_chain, ingest>>

\* faulty variant: the built index is never written to disk
SaveLocal_skip(w) ==
    /\ pc[w] = "save"
    /\ docs' = [docs EXCEPT ![w] = <<>>]
    /\ db' = [db EXCEPT ![w] = <<>>]
    /\ Goto(w, "load")
    /\ UNCHANGED <<env, disk, rag_chain, chain, retval, ingest>>

\* db.save_local("faiss_index"); ensure_faiss_index returns
SaveLocal(w) ==
    /\ pc[w] = "save"
    /\ index' = Saved(db[w])
    /\ docs' = [docs EXCEPT ![w] = <<>>]
    /\ db' = [db EXCEPT ![w] = <<>>]
    /\ Goto(w, "load")
    /\ UNCHANGED <<env, indexAtStart, rag_chain, chain, retval, ingest>>

\* OpenAIEmbeddings(), FAISS.load_local and as_retriever
LoadLocal(w) ==
    /\ pc[w] = "load"
    /\ \E ok \in BOOLEAN :
         /\ ClientConstructs(ok)
         /\ IF ~ok THEN Raise(w, "CredentialError")
            ELSE IF index.kind /= "index" THEN Raise(w, "LoadError")
            ELSE /\ Goto(w, "build")
                 /\ UNCHANGED locals
    /\ UNCHANGED <<env, disk, rag_chain, ingest>>

\* faulty variant: the global is stored only while it is still None (first call wins)
BuildChain_once(w) ==
    /\ pc[w] = "build"
    /\ \E ok \in BOOLEAN :
         /\ ClientConstructs(ok)
         /\ IF ~ok
            THEN /\ Raise(w, "CredentialError")
                 /\ UNCHANGED rag_chain
            ELSE /\ rag_chain' = IF rag_chain = None THEN w ELSE rag_chain
                 /\ Goto(w, "return")
                 /\ UNCHANGED locals
    /\ UNCHANGED <<env, disk, ingest>>

\* the prompt template, ChatOpenAI(...) and
\* `rag_chain = (... | prompt | llm | StrOutputParser())`: the pipeline object
\* this worker has built is stored in the global.  A worker builds at most
\* one pipeline that is ever stored, so the worker's number names the object.
BuildChain(w) ==
    /\ pc[w] = "build"
    /\ \E ok \in BOOLEAN :
         /\ ClientConstructs(ok)
         /\ IF ~ok
            THEN /\ Raise(w, "CredentialError")
                 /\ UNCHANGED rag_chain
            ELSE /\ rag_chain' = w
                 /\ Goto(w, "return")
                 /\ UNCHANGED locals
    /\ UNCHANGED <<env, disk, ingest>>

\* `return rag_chain`, bound to `chain` in chat
ReturnChain(w) ==
    /\ pc[w] = "return"
    /\ chain' = [chain EXCEPT ![w] = rag_chain]
    /\ Goto(w, "invoke")
    /\ UNCHANGED <<env, disk, rag_chain, docs, db, retval, ingest>>

\* chain.invoke(query.question) and `return {"answer": ...}`
Invoke(w) ==
    /\ pc[w] = "invoke"
    /\ IF ~ApiCallSucceeds THEN Raise(w, "APIError")
       ELSE /\ retval' = [retval EXCEPT ![w] =
                  Dict("answer", "Helpful Answer: V2")]
            /\ Goto(w, "respond")
            /\ UNCHANGED <<docs, db, chain>>
    /\ UNCHANGED <<env, disk, rag_chain, ingest>>

\* the framework sends HttpResponse(retval[w]) and the thread is free again
Respond(w) ==
    /\ pc[w] = "respond"
    /\ retval' = [retval EXCEPT ![w] = NoValue]
    /\ chain' = [chain EXCEPT ![w] = None]
    /\ Goto(w, "idle")
    /\ UNCHANGED <<env, disk, rag_chain, docs, db, ingest>>

(* ------------------------- the ingestion script ------------------------ *)

\* ingest.py up to FAISS.from_documents: the key check, the corpus is read
\* and split, every chunk is embedded.  Any failure ends the process.
IngestBuild ==
    /\ ingestPc \in {"idle", "exit_ok", "exit_err"}
    /\ \E key \in BOOLEAN :
         IF ~key \/ ~corpusPresent \/ ~apiUp
         THEN /\ ingestPc' = "exit_err"
              /\ UNCHANGED ingestDb
         ELSE /\ ingestPc' = "save"
              /\ ingestDb' = from_documents(
                   split_documents(corpus, ingest_chunk_size,
                                   ingest_chunk_overlap))
    /\ UNCHANGED <<env, disk, workers>>

\* db.save_local("faiss_index")
IngestSave ==
    /\ ingestPc = "save"
    /\ index' = Saved(ingestDb)
    /\ ingestDb' = <<>>
    /\ ingestPc' = "exit_ok"
    /\ UNCHANGED <<env, indexAtStart, workers>>

(* --------------------------- the environment --------------------------- *)

\* the external API becomes unreachable, or reachable again
ApiChange ==
    /\ apiUp' = ~apiUp
    /\ UNCHANGED <<keySet, corpus, corpusPresent, disk, workers, ingest>>

\* data.txt is removed, or put back
CorpusChange ==
    /\ corpusPresent' = ~corpusPresent
    /\ UNCHANGED <<keySet, corpus, apiUp, disk, workers, ingest>>

\* one step of the handler of the request worker w serves
Chat(w) ==
    \/ GetRagChain(w)
    \/ EnsureFaissIndex(w)
    \/ LoadCorpus(w)
    \/ BuildIndex(w)
    \/ SaveLocal(w)
    \/ LoadLocal(w)
    \/ BuildChain(w)
    \/ ReturnChain(w)
    \/ Invoke(w)
    \/ Respond(w)

Next ==
    \/ \E w \in Workers : Chat(w)
    \/ IngestBuild
    \/ IngestSave
    \/ ApiChange
    \/ CorpusChange

Spec == Init /\ [][Next]_vars

\* The query service alone, started without an index, with data.txt in place,
\* the key set and the external APIs answering throughout.
InitGood ==
    /\ keySet = TRUE
    /\ apiUp = TRUE
    /\ corpus \in Corpora
    /\ corpusPresent = TRUE
    /\ index = Absent
    /\ rag_chain = None
    /\ pc = [w \in Workers |-> "idle"]
    /\ docs = [w \in Workers |-> <<>>]
    /\ db = [w \in Workers |-> <<>>]
    /\ chain = [w \in Workers |-> None]
    /\ retval = [w \in Workers |-> NoValue]
    /\ ingestPc = "idle"
    /\ ingestDb = <<>>
    /\ indexAtStart = FALSE

NextGood == \E w \in Workers : Chat(w)

SpecGood == InitGood /\ [][NextGood]_vars

(* ------------------------------ claims --------------------------------- *)

\* chat has returned and the framework is about to send the response
Responding(w) == pc[w] = "respond"
\* the request's handling failed: the except branch produced the return value
Failed(w) == retval[w].key = "error"
Response(w) == HttpResponse(retval[w])
HasField(body, name) == body.json = "object" /\ name \in body.fields

\* the pc values of the index-generation path of ensure_faiss_index
GenerationPath == {"corpus", "embed", "save"}
\* the pc values of the initialization in get_rag_chain
InitPath == {"ensure", "corpus", "embed", "save", "load", "build"}

\* worker w executes save_local in this step
Saves(w) == pc[w] = "save" /\ pc'[w] = "load"
\* worker w's initialization raises in this step
InitFails(w) == pc[w] \in InitPath /\ pc'[w] = "respond"
\* worker w completes its initialization in this step
InitCompletes(w) == pc[w] = "build" /\ pc'[w] = "return"

\* what the service's generation path leaves on disk for a corpus
AppIndex(text) ==
    Saved(from_documents(
        split_documents(text, app_chunk_size, app_chunk_overlap)))

\* C1: every response to POST /chat has a body that is a JSON object with an
\* "answer" field (success) or with an "error" field (failure).
C1_BodyIsAnswerOrErrorObject ==
    \A w \in Workers :
        Responding(w) =>
            IF Failed(w) THEN HasField(Response(w).body, "error")
            ELSE HasField(Response(w).body, "answer")

\* C2: a failed request is answered with status 500, and status 200 is only
\* sent for a successful answer.
C2_FailureHasStatus500 ==
    \A w \in Workers :
        Responding(w) =>
            /\ Failed(w) => Response(w).status = error_status
            /\ Response(w).status = default_status_code => ~Failed(w)

\* C3: if faiss_index exists when the service starts, no request ever enters
\* the index-generation path.
C3_NoGenerationWhenIndexAtStart ==
    indexAtStart => \A w \in Workers : pc[w] \notin GenerationPath

\* C3 witness: the index was there at start and a request was answered from it
C3_Witness ==
    /\ indexAtStart
    /\ \E w \in Workers :
         Responding(w) /\ ~Failed(w) /\ chain[w] /= None

\* C4: once a pipeline has been stored in rag_chain, the reference is never
\* set back to None and never replaced by another pipeline, and a request that
\* starts afterwards goes straight to `return rag_chain`.
C4_LoadedNeverReplaced ==
    [][rag_chain /= None =>
         /\ rag_chain' = rag_chain
         /\ \A w \in Workers :
              (pc[w] = "idle" /\ pc'[w] /= "idle") => pc'[w] = "return"]_vars

\* C5: started without an index, with the corpus present and the external
\* calls succeeding, a request is answered with an answer, and when chat
\* returns the index directory exists and the pipeline is loaded.
C5_FirstRequestBuildsAndAnswers ==
    \A w \in Workers :
        Responding(w) =>
            /\ ~Failed(w)
            /\ HasField(Response(w).body, "answer")
            /\ path_exists(index)
            /\ index = AppIndex(corpus)
            /\ rag_chain /= None

\* C5 witness: a request has been answered and the index it needed was built
C5_Witness ==
    \E w \in Workers :
        /\ Responding(w)
        /\ HasField(Response(w).body, "answer")
        /\ index.kind = "index"
        /\ chain[w] /= None

\* C6: without the API key every POST /chat request is answered with a JSON
\* payload that has an "error" field.
C6_NoKeyGivesErrorField ==
    ~keySet =>
        \A w \in Workers :
            Responding(w) => HasField(Response(w).body, "error")

\* C7: nothing but the `rag_chain is None` check guards the initialization:
\* every worker that completes it stores its own pipeline in the global,
\* whatever the global holds by then.
C7_EveryInitStoresItsPipeline ==
    [][\A w \in Workers : InitCompletes(w) => rag_chain' = w]_vars

\* C7 witness: two workers ran the initialization and the later assignment
\* replaced the pipeline the earlier one stored (which a request still uses)
C7_Witness ==
    \E w1, w2 \in Workers :
        /\ w1 /= w2
        /\ chain[w1] = w1
        /\ rag_chain = w2

\* C8: while the ingestion script does not run, the service saves the index
\* only in a state where the index directory does not exist.
C8_SaveOnlyWhenAbsent ==
    [][ingestPc = "idle" =>
         \A w \in Workers : Saves(w) => ~path_exists(index)]_vars

\* C9: a step in which an initialization raises changes neither rag_chain
\* nor the index directory; rag_chain changes only in a step that completes
\* an initialization; and a request that arrives while rag_chain is None
\* starts the initialization from its first statement.
C9_FailedInitChangesNothing ==
    [][/\ \A w \in Workers :
            InitFails(w) =>
                /\ rag_chain' = rag_chain
                /\ index' = index
                /\ Failed(w)'
       /\ rag_chain' /= rag_chain =>
            \E w \in Workers : InitCompletes(w)
       /\ \A w \in Workers :
            (pc[w] = "idle" /\ pc'[w] /= "idle" /\ rag_chain = None) =>
                pc'[w] = "ensure"]_vars

\* C9 witness: an index build has failed for want of the corpus; the pipeline
\* is still unloaded and there is still no index directory
C9_Witness ==
    \E w \in Workers :
        /\ Responding(w)
        /\ retval[w].val = "FileNotFoundError"
        /\ rag_chain = None
        /\ ~path_exists(index)

\* C10: for the same corpus the service's generation path and ingest.py
\* leave the same index on disk, and with the corpus file missing both end
\* in failure without writing an index.
C10_BuildersEquivalent ==
    [][/\ \A w \in Workers :
            /\ Saves(w) => index' = IngestIndex(corpus)
            /\ (pc[w] = "corpus" /\ pc'[w] /= "corpus" /\ ~corpusPresent) =>
                   /\ Failed(w)'
                   /\ index' = index
       /\ (ingestPc = "save" /\ ingestPc' /= "save") =>
            index' = AppIndex(corpus)
       /\ (ingestPc /= "save" /\ ingestPc' /= ingestPc /\ ~corpusPresent) =>
            /\ ingestPc' = "exit_err"
            /\ index' = index]_vars

\* C10 witness: both builders hold the index they built from the same corpus,
\* of more than one chunk, and are about to save it
C10_Witness ==
    \E w \in Workers :
        /\ pc[w] = "save"
        /\ ingestPc = "save"
        /\ Len(db[w]) > 1
        /\ db[w] = ingestDb

====
